---- MODULE Spec2Model ----
(***************************************************************************)
(* A model of utils/image_scanner.py: the ImageScanner class (template     *)
(* cache, template matching, non-maximum suppression, the standard scans   *)
(* and the animated-image retry search).                                   *)
(*                                                                         *)
(* Modelling conventions                                                   *)
(*  - confidences and thresholds are integers in hundredths (0.8 is 80);   *)
(*  - a file name is a sequence of one-character strings;                  *)
(*  - a template is its shape [w, h]; its pixels, and the pixels of a      *)
(*    captured buffer, are seen only through cv2.matchTemplate, so a       *)
(*    captured buffer is the family of correlation surfaces it has with    *)
(*    the templates on disk, each surface given by its peaks over a        *)
(*    background score;                                                    *)
(*  - None and the empty list are the empty sequence; "no exception" is    *)
(*    the string "none".                                                   *)
(***************************************************************************)
EXTENDS Integers, Sequences, FiniteSets, TLC

(***************************************************************************)
(* Bounds of the model.                                                    *)
(***************************************************************************)
\* the largest number of above-background placements a surface has in a
\* standard scan
MaxPeaks == 3
\* the largest max_attempts an animated scan is called with
MaxAttempts == 3

None == <<>>
NoException == "none"

(***************************************************************************)
(* Generic helpers.                                                        *)
(***************************************************************************)
Min(a, b) == IF a <= b THEN a ELSE b
Max(a, b) == IF a >= b THEN a ELSE b

Contains(seq, e) == \E i \in 1..Len(seq) : seq[i] = e

\* str.endswith
EndsWith(s, suffix) ==
    /\ Len(s) >= Len(suffix)
    /\ SubSeq(s, Len(s) - Len(suffix) + 1, Len(s)) = suffix

\* str.rsplit('.', 1): <<base, extension>> when the name holds a '.', else <<name>>
RSplitDot(s) ==
    LET dots == {i \in 1..Len(s) : s[i] = "."}
    IN  IF dots = {} THEN <<s>>
        ELSE LET d == CHOOSE i \in dots : \A j \in dots : j <= i
             IN  <<SubSeq(s, 1, d - 1), SubSeq(s, d + 1, Len(s))>>

(***************************************************************************)
(* _generate_image_variations                                              *)
(***************************************************************************)
state_suffixes ==
    << <<"-","n","o","r","m","a","l">>,
       <<"-","f","o","c","u","s","e","d">>,
       <<"-","f","o","c","u","s","s","e","d">>,
       <<"-","h","o","v","e","r">>,
       <<"-","p","r","e","s","s","e","d">>,
       <<"-","a","c","t","i","v","e">>,
       <<"-","d","i","s","a","b","l","e","d">>,
       <<"-","s","e","l","e","c","t","e","d">>,
       <<"-","h","i","g","h","l","i","g","h","t","e","d">> >>

NumSuffixes == Len(state_suffixes)

\* a variation put in front of the list
AppendInFront(variations, variation) ==
    IF Contains(variations, variation) THEN variations
    ELSE <<variation>> \o variations

\* "if variation not in variations: variations.append(variation)"
AppendIfNew(variations, variation) ==
    IF Contains(variations, variation) THEN variations
    ELSE Append(variations, variation)

\* a loop with neither "if other_suffix != suffix" nor "not in variations"
RECURSIVE OtherSuffixLoopUnchecked(_, _, _, _, _)
OtherSuffixLoopUnchecked(variations, root_name, extension, suffix, k) ==
    IF k > NumSuffixes THEN variations
    ELSE OtherSuffixLoopUnchecked(
             Append(variations,
                    root_name \o state_suffixes[k] \o <<".">> \o extension),
             root_name, extension, suffix, k + 1)

\* the loop "for other_suffix in state_suffixes" of the has_state_suffix branch,
\* from index k on
RECURSIVE OtherSuffixLoop(_, _, _, _, _)
OtherSuffixLoop(variations, root_name, extension, suffix, k) ==
    IF k > NumSuffixes THEN variations
    ELSE LET other_suffix == state_suffixes[k]
             next == IF other_suffix # suffix
                     THEN AppendIfNew(variations,
                                      root_name \o other_suffix \o <<".">> \o extension)
                     ELSE variations
         IN  OtherSuffixLoop(next, root_name, extension, suffix, k + 1)

\* the loop "for suffix in state_suffixes" of the else branch, from index k on
RECURSIVE AddSuffixLoop(_, _, _, _)
AddSuffixLoop(variations, base_name, extension, k) ==
    IF k > NumSuffixes THEN variations
    ELSE AddSuffixLoop(
             AppendIfNew(variations,
                         base_name \o state_suffixes[k] \o <<".">> \o extension),
             base_name, extension, k + 1)

\* the counterparts of a name with a state suffix without the bare root name
GenerateImageVariationsNoRoot(image_name) ==
    LET name_parts == RSplitDot(image_name)
        base_name == IF Len(name_parts) = 2 THEN name_parts[1] ELSE image_name
        extension == IF Len(name_parts) = 2 THEN name_parts[2] ELSE <<"p","n","g">>
        has_state_suffix ==
            \E k \in 1..NumSuffixes : EndsWith(base_name, state_suffixes[k])
    IN  IF has_state_suffix
        THEN LET k == CHOOSE i \in 1..NumSuffixes :
                          /\ EndsWith(base_name, state_suffixes[i])
                          /\ \A j \in 1..(i - 1) :
                                 ~EndsWith(base_name, state_suffixes[j])
                 suffix == state_suffixes[k]
                 root_name == SubSeq(base_name, 1, Len(base_name) - Len(suffix))
             IN  OtherSuffixLoop(<<image_name>>, root_name, extension, suffix, 1)
        ELSE AddSuffixLoop(<<image_name>>, base_name, extension, 1)

GenerateImageVariations(image_name) ==
    LET name_parts == RSplitDot(image_name)
        base_name == IF Len(name_parts) = 2 THEN name_parts[1] ELSE image_name
        extension == IF Len(name_parts) = 2 THEN name_parts[2] ELSE <<"p","n","g">>
        has_state_suffix ==
            \E k \in 1..NumSuffixes : EndsWith(base_name, state_suffixes[k])
    IN  IF has_state_suffix
        THEN LET k == CHOOSE i \in 1..NumSuffixes :
                          /\ EndsWith(base_name, state_suffixes[i])
                          /\ \A j \in 1..(i - 1) :
                                 ~EndsWith(base_name, state_suffixes[j])
                 suffix == state_suffixes[k]
                 root_name == SubSeq(base_name, 1, Len(base_name) - Len(suffix))
                 others == OtherSuffixLoop(<<image_name>>, root_name, extension,
                                           suffix, 1)
             IN  AppendIfNew(others, root_name \o <<".">> \o extension)
        ELSE AddSuffixLoop(<<image_name>>, base_name, extension, 1)

(***************************************************************************)
(* cv2.matchTemplate, find_template_in_region, find_all_templates_in_region*)
(* and _remove_overlapping_matches                                         *)
(***************************************************************************)
\* score of a placement that is no peak of the surface
Background == 0

\* cv2.matchTemplate raises cv2.error for a template wider or taller than the
\* image (the templates of this model exceed the region in width only; a
\* template larger in both dimensions is not among them)
MatchTemplateFails(template, region_w, region_h) ==
    \/ template.w > region_w
    \/ template.h > region_h

\* The result array of cv2.matchTemplate: one score per top-left placement
\* (x, y) of the template in the captured region.
ResultXs(template, region_w) == 0..(region_w - template.w)
ResultYs(template, region_h) == 0..(region_h - template.h)

MatchTemplate(peaks, template, region_w, region_h) ==
    [pt \in ResultXs(template, region_w) \X ResultYs(template, region_h) |->
        IF \E p \in peaks : p.x = pt[1] /\ p.y = pt[2]
        THEN (CHOOSE p \in peaks : p.x = pt[1] /\ p.y = pt[2]).conf
        ELSE Background]

\* placements in the scan order of numpy and OpenCV: row-major, top to bottom
\* and left to right
RowMajorBefore(p, q) == p[2] < q[2] \/ (p[2] = q[2] /\ p[1] < q[1])

RECURSIVE RowMajor(_)
RowMajor(pts) ==
    IF pts = {} THEN <<>>
    ELSE LET first == CHOOSE p \in pts : \A q \in pts \ {p} : RowMajorBefore(p, q)
         IN  <<first>> \o RowMajor(pts \ {first})

\* a strict comparison with the threshold
FindTemplateStrict(result, threshold) ==
    LET pts == DOMAIN result
        max_loc == CHOOSE p \in pts :
                       \A q \in pts \ {p} :
                           \/ result[q] < result[p]
                           \/ (result[q] = result[p] /\ RowMajorBefore(p, q))
    IN  IF result[max_loc] > threshold
        THEN <<max_loc[1], max_loc[2], result[max_loc]>>
        ELSE None

\* a find_template_in_region that takes the last location of the maximum in
\* scan order
FindTemplateLastMax(result, threshold) ==
    LET pts == DOMAIN result
        max_loc == CHOOSE p \in pts :
                       \A q \in pts \ {p} :
                           \/ result[q] < result[p]
                           \/ (result[q] = result[p] /\ RowMajorBefore(q, p))
        confidence == result[max_loc]
    IN  IF confidence >= threshold
        THEN <<max_loc[1], max_loc[2], confidence>>
        ELSE None

\* find_template_in_region with TM_CCOEFF_NORMED: cv2.minMaxLoc gives the
\* maximum and its first location in scan order
FindTemplateInRegion(result, threshold) ==
    LET pts == DOMAIN result
        max_loc == CHOOSE p \in pts :
                       \A q \in pts \ {p} :
                           \/ result[q] < result[p]
                           \/ (result[q] = result[p] /\ RowMajorBefore(p, q))
        confidence == result[max_loc]
    IN  IF confidence >= threshold
        THEN <<max_loc[1], max_loc[2], confidence>>
        ELSE None

\* a sort that puts a match before the matches of equal confidence already
\* sorted: descending, but matches of equal confidence in reverse order
RECURSIVE InsertBeforeEquals(_, _)
InsertBeforeEquals(sorted, m) ==
    IF sorted = <<>> THEN <<m>>
    ELSE IF Head(sorted)[3] > m[3]
         THEN <<Head(sorted)>> \o InsertBeforeEquals(Tail(sorted), m)
         ELSE <<m>> \o sorted

\* sorted(matches, key=lambda x: x[2], reverse=True): a stable sort, matches of
\* equal confidence keep their order
RECURSIVE InsertByConfidence(_, _)
InsertByConfidence(sorted, m) ==
    IF sorted = <<>> THEN <<m>>
    ELSE IF Head(sorted)[3] >= m[3]
         THEN <<Head(sorted)>> \o InsertByConfidence(Tail(sorted), m)
         ELSE <<m>> \o sorted

\* no sort: the matches stay in scan order
SortSkipped(matches) == matches

\* a sort without reverse=True: ascending, matches of equal confidence in
\* their order
RECURSIVE SortAscending(_)
SortAscending(matches) ==
    IF matches = <<>> THEN <<>>
    ELSE LET rest == SortAscending(SubSeq(matches, 1, Len(matches) - 1))
             m == matches[Len(matches)]
             k == Cardinality({i \in 1..Len(rest) : rest[i][3] <= m[3]})
         IN  SubSeq(rest, 1, k) \o <<m>> \o SubSeq(rest, k + 1, Len(rest))

RECURSIVE SortByConfidence(_)
SortByConfidence(matches) ==
    IF matches = <<>> THEN <<>>
    ELSE InsertByConfidence(SortByConfidence(SubSeq(matches, 1, Len(matches) - 1)),
                            matches[Len(matches)])

\* a suppression radius of a quarter of the smaller side
TooCloseQuarter(m, a, template) ==
    LET dx == m[1] - a[1]
        dy == m[2] - a[2]
        md == Min(template.w, template.h)
    IN  16 * (dx * dx + dy * dy) < md * md

\* an overlap test that counts a center at exactly the minimum distance
TooCloseInclusive(m, a, template) ==
    LET dx == m[1] - a[1]
        dy == m[2] - a[2]
        md == Min(template.w, template.h)
    IN  4 * (dx * dx + dy * dy) <= md * md

\* center_distance < min_distance, with
\*   center_distance = sqrt((x - ax)**2 + (y - ay)**2)
\*   min_distance    = min(template_width, template_height) * 0.5
\* compared exactly, as 4 * distance^2 < min(w, h)^2
TooClose(m, a, template) ==
    LET dx == m[1] - a[1]
        dy == m[2] - a[2]
        md == Min(template.w, template.h)
    IN  4 * (dx * dx + dy * dy) < md * md

\* a loop that stops at the first match that overlaps a kept one
RECURSIVE FilterLoopStopsAtOverlap(_, _, _)
FilterLoopStopsAtOverlap(matches, filtered_matches, template) ==
    IF matches = <<>> THEN filtered_matches
    ELSE LET match == Head(matches)
             overlaps == \E i \in 1..Len(filtered_matches) :
                             TooClose(match, filtered_matches[i], template)
         IN  IF overlaps THEN filtered_matches
             ELSE FilterLoopStopsAtOverlap(Tail(matches),
                                           Append(filtered_matches, match),
                                           template)

RECURSIVE FilterLoop(_, _, _)
FilterLoop(matches, filtered_matches, template) ==
    IF matches = <<>> THEN filtered_matches
    ELSE LET match == Head(matches)
             overlaps == \E i \in 1..Len(filtered_matches) :
                             TooClose(match, filtered_matches[i], template)
         IN  FilterLoop(Tail(matches),
                        IF overlaps THEN filtered_matches
                        ELSE Append(filtered_matches, match),
                        template)

RemoveOverlappingMatches(matches, template) ==
    IF matches = <<>> THEN matches
    ELSE FilterLoop(SortByConfidence(matches), <<>>, template)

\* np.where(result >= threshold), in scan order, each with its confidence
RawMatches(result, threshold) ==
    LET locations == RowMajor({pt \in DOMAIN result : result[pt] >= threshold})
    IN  [i \in 1..Len(locations) |->
            <<locations[i][1], locations[i][2], result[locations[i]]>>]

FindAllTemplatesInRegion(result, template, threshold) ==
    LET matches == RawMatches(result, threshold)
    IN  IF matches # <<>> THEN RemoveOverlappingMatches(matches, template)
        ELSE matches

\* the center taken half a side too far (a rounding up of the half)
ClickPositionRoundedUp(match, template, bounding_box, click_offset) ==
    <<bounding_box[1] + match[1] + (template.w + 1) \div 2 + click_offset[1],
      bounding_box[2] + match[2] + (template.h + 1) \div 2 + click_offset[2]>>

\* the far side of the match taken for its center
ClickPositionFarSide(match, template, bounding_box, click_offset) ==
    <<bounding_box[1] + match[1] + template.w + click_offset[1],
      bounding_box[2] + match[2] + template.h + click_offset[2]>>

\* the translation of a match to the absolute click position, shared by
\* _scan_standard_image, _scan_animated_image and _scan_for_all_images_standard
ClickPosition(match, template, bounding_box, click_offset) ==
    LET center_x == match[1] + template.w \div 2
        center_y == match[2] + template.h \div 2
        click_x == center_x + click_offset[1]
        click_y == center_y + click_offset[2]
    IN  <<bounding_box[1] + click_x, bounding_box[2] + click_y>>

(***************************************************************************)
(* The inputs the model draws from.                                        *)
(***************************************************************************)
\* "btn-normal.png": a name with a state suffix
BtnNormalPng ==
    <<"b","t","n","-","n","o","r","m","a","l",".","p","n","g">>
\* "icon.png": a name with no state suffix
IconPng == <<"i","c","o","n",".","p","n","g">>

InputNames == {BtnNormalPng, IconPng}

\* every file name a scan of an input name can ask the disk for
AllNames ==
    UNION {{GenerateImageVariations(n)[i] :
               i \in 1..Len(GenerateImageVariations(n))} : n \in InputNames}

\* template shapes (template.shape[:2] is (height, width))
Image(w, h) == [kind |-> "image", w |-> w, h |-> h]
Shapes == { Image(4, 4), Image(3, 5), Image(9, 2) }

\* what load_template finds under a name: no file, a file cv2.imread cannot
\* decode, or an image
Missing == [kind |-> "missing", w |-> 0, h |-> 0]
Undecodable == [kind |-> "undecodable", w |-> 0, h |-> 0]
DiskEntries == {Missing, Undecodable} \cup Shapes

\* bounding_box = (x, y, width, height)
BoundingBoxes == { <<100, 50, 8, 6>> }
ClickOffsets == { <<0, 0>>, <<3, -2>> }
AnimatedClickOffsets == { <<3, -2>> }
\* thresholds a caller passes, in hundredths (80 is the default 0.8)
Thresholds == {80, 90}
AnimatedThresholds == {80, 30}
LowThresholds == {80, 5}
\* scores of the peaks of a surface, in hundredths
Confidences == {80, 95}
AnimatedConfidences == {9, 10, 55, 95}

IsTemplate(e) == e.kind = "image"

VARIABLES
    disk,            \* the images folder: a function from the names of its files
    template_cache,  \* self.template_cache: a function from the cached names
    pc,              \* where the scanner is: "idle", "capture", "match", "settle", "done"
    op,              \* the scan in progress: "locate", "locateAll", "animated" or "none"
    args,            \* its arguments
    image_variations,\* _scan_animated_image: the variations list
    thresholds,      \* _scan_animated_image: the thresholds list
    attempt,         \* _scan_animated_image: the loop variable attempt (from 0)
    ti,              \* index of the current threshold in thresholds (from 1)
    vi,              \* index of the current variation in image_variations (from 1)
    region_image,    \* the last captured buffer, or None
    result,          \* the value returned to the caller
    raised,          \* the exception that reached the caller, or "none"
    caught,          \* the exception the scan's except clause swallowed, or "none"
    found,           \* the (attempt, threshold index, variation index) reported found
    events,          \* the captures and sleeps of the scan so far, in order
    missed,          \* how many attempts so far ended without a match
    static,          \* whether every capture so far showed the same screen
    reads,           \* how often cv2.imread was called for each name by the process
    calls,           \* how many calls the process has made of the module-level
                     \* functions, or of load_template
    image_names,     \* scan_for_multiple_images: the list of names
    shots,           \* scan_for_multiple_images: what each capture of the call gave
    match_calls,     \* _scan_animated_image: the calls of find_template_in_region
    captured_at,     \* the attempt whose capture region_image holds, -1 for none
    threads          \* where each thread is in its call of load_template, with
                     \* the name it asked for and the template it holds

vars == <<disk, template_cache, pc, op, args, image_variations, thresholds,
          attempt, ti, vi, region_image, result, raised, caught, found,
          events, missed, static, reads, calls, image_names, shots,
          match_calls, captured_at, threads>>

(***************************************************************************)
(* load_template and capture_screen_region                                 *)
(***************************************************************************)
\* what os.path.exists and cv2.imread find for a name
FileEntry(name) == IF name \in DOMAIN disk THEN disk[name] ELSE Missing

\* a load_template that caches what cv2.imread gave before it looks at it
LoadTemplateCachesFirst(cache, image_name) ==
    LET cached == [n \in DOMAIN cache \cup {image_name} |->
                      IF n = image_name THEN FileEntry(image_name)
                      ELSE cache[n]]
    IN  IF image_name \in DOMAIN cache
        THEN [exc |-> NoException, template |-> cache[image_name],
              cache |-> cache]
        ELSE IF FileEntry(image_name) = Missing
        THEN [exc |-> "FileNotFoundError", template |-> Missing, cache |-> cache]
        ELSE IF FileEntry(image_name) = Undecodable
        THEN [exc |-> "ValueError", template |-> Undecodable, cache |-> cached]
        ELSE [exc |-> NoException, template |-> FileEntry(image_name),
              cache |-> cached]

\* a load_template that starts the cache anew with every file it reads
LoadTemplateForgetsOthers(cache, image_name) ==
    IF image_name \in DOMAIN cache
    THEN [exc |-> NoException, template |-> cache[image_name], cache |-> cache]
    ELSE IF FileEntry(image_name) = Missing
    THEN [exc |-> "FileNotFoundError", template |-> Missing, cache |-> cache]
    ELSE IF FileEntry(image_name) = Undecodable
    THEN [exc |-> "ValueError", template |-> Undecodable, cache |-> cache]
    ELSE [exc |-> NoException, template |-> FileEntry(image_name),
          cache |-> [n \in {image_name} |-> FileEntry(image_name)]]

\* load_template: the exception raised (or None), the template returned and
\* the cache afterwards
LoadTemplate(cache, image_name) ==
    IF image_name \in DOMAIN cache
    THEN [exc |-> NoException, template |-> cache[image_name], cache |-> cache]
    ELSE IF FileEntry(image_name) = Missing
    THEN [exc |-> "FileNotFoundError", template |-> Missing, cache |-> cache]
    ELSE IF FileEntry(image_name) = Undecodable
    THEN [exc |-> "ValueError", template |-> Undecodable, cache |-> cache]
    ELSE [exc |-> NoException, template |-> FileEntry(image_name),
          cache |-> [n \in DOMAIN cache \cup {image_name} |->
                        IF n = image_name THEN FileEntry(image_name)
                        ELSE cache[n]]]

\* whether load_template goes to the disk for a name: the name is not cached
\* and os.path.exists finds its file, so cv2.imread is called
ReadsFile(cache, image_name) ==
    /\ image_name \notin DOMAIN cache
    /\ FileEntry(image_name) # Missing

\* the read counts after a call of load_template
CountRead(counts, cache, image_name) ==
    IF ReadsFile(cache, image_name)
    THEN [counts EXCEPT ![image_name] = @ + 1]
    ELSE counts

\* what a call of capture_screen_region gives: a buffer, or an exception of
\* mss (a bad region, a failing capture API)
CaptureError == "CaptureError"
Captured(buffer) == [ok |-> TRUE, image |-> buffer]

\* the peaks a surface can have for a template in a region
PossiblePeaks(template, bounding_box) ==
    IF MatchTemplateFails(template, bounding_box[3], bounding_box[4]) THEN {}
    ELSE [x : ResultXs(template, bounding_box[3]) \cap 0..4,
          y : ResultYs(template, bounding_box[4]) \cap 0..1,
          conf : Confidences]

\* no two peaks of a surface at one placement
WellFormed(peaks) ==
    \A p, q \in peaks : (p.x = q.x /\ p.y = q.y) => p = q

\* the sets of at most k peaks
RECURSIVE PeakSets(_, _)
PeakSets(candidates, k) ==
    IF k = 0 THEN {{}}
    ELSE LET smaller == PeakSets(candidates, k - 1)
         IN  smaller \cup
             {s \cup {p} : s \in {t \in smaller : Cardinality(t) = k - 1},
                           p \in candidates}

\* capture_screen_region as a standard scan of image_name can see it: the
\* buffers whose surface with the template of image_name has at most MaxPeaks
\* peaks
StandardBuffers(image_name, bounding_box) ==
    LET e == FileEntry(image_name)
        cands == IF IsTemplate(e) THEN PossiblePeaks(e, bounding_box) ELSE {}
    IN  {Captured([n \in {image_name} |-> s]) :
             s \in {t \in PeakSets(cands, MaxPeaks) : WellFormed(t)}}

\* capture_screen_region as an animated scan can see it: one peak at most in
\* the surface of each template on disk, at placement (1, 0)
AnimatedBuffers(bounding_box) ==
    LET usable == {n \in DOMAIN disk :
                      /\ IsTemplate(disk[n])
                      /\ PossiblePeaks(disk[n], bounding_box) # {}}
        choices == {{}} \cup {{[x |-> 1, y |-> 0, conf |-> c]} :
                                 c \in AnimatedConfidences}
    IN  {Captured(f) : f \in [usable -> choices]}

\* region_image before the first capture of a scan
NoBuffer == [n \in {} |-> {}]

\* the peaks of the surface a buffer has with the template of a name
PeaksOf(buffer, name) == IF name \in DOMAIN buffer THEN buffer[name] ELSE {}

CaptureFailed == [ok |-> FALSE, image |-> NoBuffer]

\* the result array of cv2.matchTemplate for a template in a captured buffer
Surface(buffer, name, template, bounding_box) ==
    MatchTemplate(PeaksOf(buffer, name), template, bounding_box[3],
                  bounding_box[4])

(***************************************************************************)
(* The standard scans: each runs from call to return with no step of       *)
(* another scan in between.                                                *)
(***************************************************************************)
\* _scan_standard_image on a scanner whose cache is `cache`, where `capture`
\* is what capture_screen_region gives when it is called: the value returned,
\* the cache afterwards, the exception the except clause swallowed, the
\* buffer captured and the captures made
ScanStandardImage(cache, image_name, bounding_box, threshold, click_offset, capture) ==
    LET load == LoadTemplate(cache, image_name)
        template == load.template
    IN  IF load.exc # NoException
        THEN [result |-> None, cache |-> load.cache, caught |-> load.exc,
              region_image |-> NoBuffer, events |-> <<>>]
        ELSE IF ~capture.ok
        THEN [result |-> None, cache |-> load.cache, caught |-> CaptureError,
              region_image |-> NoBuffer, events |-> <<"capture_failed">>]
        ELSE IF MatchTemplateFails(template, bounding_box[3], bounding_box[4])
        THEN [result |-> None, cache |-> load.cache, caught |-> "cv2.error",
              region_image |-> capture.image, events |-> <<"capture">>]
        ELSE LET match_result ==
                     FindTemplateInRegion(
                         Surface(capture.image, image_name, template, bounding_box),
                         threshold)
             IN  [result |-> IF match_result = None THEN None
                             ELSE ClickPosition(match_result, template,
                                                bounding_box, click_offset),
                  cache |-> load.cache, caught |-> NoException,
                  region_image |-> capture.image, events |-> <<"capture">>]

\* the loop "for match_x, match_y, confidence in matches" of
\* _scan_for_all_images_standard
ClickPositions(matches, template, bounding_box, click_offset) ==
    [i \in 1..Len(matches) |->
        ClickPosition(matches[i], template, bounding_box, click_offset)]

\* _scan_for_all_images_standard, as ScanStandardImage
ScanForAllImagesStandard(cache, image_name, bounding_box, threshold, click_offset, capture) ==
    LET load == LoadTemplate(cache, image_name)
        template == load.template
    IN  IF load.exc # NoException
        THEN [result |-> <<>>, cache |-> load.cache, caught |-> load.exc,
              region_image |-> NoBuffer, events |-> <<>>]
        ELSE IF ~capture.ok
        THEN [result |-> <<>>, cache |-> load.cache, caught |-> CaptureError,
              region_image |-> NoBuffer, events |-> <<"capture_failed">>]
        ELSE IF MatchTemplateFails(template, bounding_box[3], bounding_box[4])
        THEN [result |-> <<>>, cache |-> load.cache, caught |-> "cv2.error",
              region_image |-> capture.image, events |-> <<"capture">>]
        ELSE LET matches ==
                     FindAllTemplatesInRegion(
                         Surface(capture.image, image_name, template, bounding_box),
                         template, threshold)
             IN  [result |-> ClickPositions(matches, template, bounding_box,
                                            click_offset),
                  cache |-> load.cache, caught |-> NoException,
                  region_image |-> capture.image, events |-> <<"capture">>]

Args(image_name, bounding_box, threshold, click_offset, max_attempts) ==
    [image_name |-> image_name, bounding_box |-> bounding_box,
     threshold |-> threshold, click_offset |-> click_offset,
     max_attempts |-> max_attempts]

\* the default of max_attempts
DefaultMaxAttempts == 5

\* what a scan of one name leaves alone of the module-level functions' state
\* and of the threads
FacadeUnchanged == UNCHANGED <<calls, image_names, shots, threads>>

AnimUnchanged ==
    UNCHANGED <<disk, image_variations, thresholds, attempt, ti, vi, found,
                missed, static, match_calls, captured_at>>

\* scan_for_image(image_name, bounding_box, threshold, click_offset) with
\* animated_image=False
Locate ==
    /\ pc = "idle"
    /\ \E image_name \in InputNames, bounding_box \in BoundingBoxes,
          threshold \in Thresholds, click_offset \in ClickOffsets :
         \E capture \in StandardBuffers(image_name, bounding_box)
                            \cup {CaptureFailed} :
            LET r == ScanStandardImage(template_cache, image_name, bounding_box,
                                       threshold, click_offset, capture)
            IN  /\ op' = "locate"
                /\ args' = Args(image_name, bounding_box, threshold,
                                click_offset, DefaultMaxAttempts)
                /\ template_cache' = r.cache
                /\ region_image' = r.region_image
                /\ result' = r.result
                /\ caught' = r.caught
                /\ events' = events \o r.events
                /\ reads' = CountRead(reads, template_cache, image_name)
    /\ raised' = NoException
    /\ pc' = "done"
    /\ AnimUnchanged
    /\ FacadeUnchanged

\* scan_for_all_images(image_name, bounding_box, threshold, click_offset) with
\* animated_image=False
LocateAll ==
    /\ pc = "idle"
    /\ \E image_name \in InputNames, bounding_box \in BoundingBoxes,
          threshold \in Thresholds, click_offset \in ClickOffsets :
         \E capture \in StandardBuffers(image_name, bounding_box)
                            \cup {CaptureFailed} :
            LET r == ScanForAllImagesStandard(template_cache, image_name,
                                              bounding_box, threshold,
                                              click_offset, capture)
            IN  /\ op' = "locateAll"
                /\ args' = Args(image_name, bounding_box, threshold,
                                click_offset, DefaultMaxAttempts)
                /\ template_cache' = r.cache
                /\ region_image' = r.region_image
                /\ result' = r.result
                /\ caught' = r.caught
                /\ events' = events \o r.events
                /\ reads' = CountRead(reads, template_cache, image_name)
    /\ raised' = NoException
    /\ pc' = "done"
    /\ AnimUnchanged
    /\ FacadeUnchanged

(***************************************************************************)
(* _scan_animated_image, one step per capture, per (threshold, variation)  *)
(* pair tried and per end of attempt.                                      *)
(***************************************************************************)
\* a schedule that stops relaxing at base_threshold - 0.2
ThresholdScheduleShort(base_threshold) ==
    [i \in 1..6 |-> Max(10, base_threshold - 5 * Min(i - 1, 4))]

\* a schedule whose thresholds are not kept at 0.1 or above
ThresholdScheduleNoFloor(base_threshold) ==
    [i \in 1..6 |-> base_threshold - 5 * (i - 1)]

\* "thresholds = [base_threshold, base_threshold - 0.05, ...]" and
\* "thresholds = [max(0.1, t) for t in thresholds]"
ThresholdSchedule(base_threshold) ==
    [i \in 1..6 |-> Max(10, base_threshold - 5 * (i - 1))]

\* whether some (threshold, variation) pair of the schedule matches on a buffer:
\* the variation's file is an image that fits the region and the best score of
\* its surface reaches the threshold
PairMatches(buffer, variation, threshold, bounding_box) ==
    LET e == FileEntry(variation)
    IN  /\ IsTemplate(e)
        /\ ~MatchTemplateFails(e, bounding_box[3], bounding_box[4])
        /\ \E pt \in DOMAIN Surface(buffer, variation, e, bounding_box) :
               Surface(buffer, variation, e, bounding_box)[pt] >= threshold

Matchable(buffer, variations, schedule, bounding_box) ==
    \E t \in 1..Len(schedule), v \in 1..Len(variations) :
        PairMatches(buffer, variations[v], schedule[t], bounding_box)

\* the call, up to the first "for attempt in range(max_attempts)"
AnimStartWith(bounding_boxes, base_thresholds, click_offsets, attempts) ==
    /\ pc = "idle"
    /\ \E image_name \in InputNames, bounding_box \in bounding_boxes,
          base_threshold \in base_thresholds,
          click_offset \in click_offsets,
          max_attempts \in attempts :
         /\ args' = Args(image_name, bounding_box, base_threshold, click_offset,
                         max_attempts)
         /\ image_variations' = GenerateImageVariations(image_name)
         /\ thresholds' = ThresholdSchedule(base_threshold)
    /\ op' = "animated"
    /\ events' = Append(events, "sleep")
    /\ attempt' = 0
    /\ pc' = "capture"
    /\ UNCHANGED <<disk, template_cache, ti, vi, region_image, result, raised,
                   caught, found, missed, static, reads, match_calls,
                   captured_at>>
    /\ FacadeUnchanged

\* the call with one of the usual base thresholds
AnimStart ==
    AnimStartWith(BoundingBoxes, AnimatedThresholds, AnimatedClickOffsets,
                  {1, MaxAttempts})

\* the call with a usual base threshold or one below the 0.1 the thresholds
\* are kept at
AnimStartLow ==
    AnimStartWith(BoundingBoxes, LowThresholds, AnimatedClickOffsets,
                  {1, MaxAttempts})

\* an attempt loop one attempt short
NextAttemptOneShort ==
    /\ attempt' = attempt + 1
    /\ IF attempt + 1 < args.max_attempts - 1
       THEN pc' = "capture" /\ UNCHANGED result
       ELSE pc' = "done" /\ result' = None

\* an attempt loop that runs once more than max_attempts
NextAttemptOneMore ==
    /\ attempt' = attempt + 1
    /\ IF attempt + 1 <= args.max_attempts
       THEN pc' = "capture" /\ UNCHANGED result
       ELSE pc' = "done" /\ result' = None

\* the step of the attempt loop: to the next attempt, or out of the loop to
\* "return None"
NextAttempt ==
    /\ attempt' = attempt + 1
    /\ IF attempt + 1 < args.max_attempts
       THEN pc' = "capture" /\ UNCHANGED result
       ELSE pc' = "done" /\ result' = None

\* a capture failure that ends the search
AbortOnCaptureError ==
    /\ pc' = "done"
    /\ result' = None
    /\ UNCHANGED attempt

\* a capture failure after which the attempt goes on to match, with the
\* buffer of an earlier capture
MatchOnStaleCapture ==
    /\ pc' = "match"
    /\ UNCHANGED <<attempt, result>>

\* "except Exception as e: print(...); continue" around the capture
OnCaptureError == NextAttempt

\* "region_image = self.capture_screen_region(bounding_box)" and its except
\* clause
AnimCaptureWith(buffers) ==
    /\ pc = "capture"
    /\ \E capture \in buffers \cup {CaptureFailed} :
         IF capture.ok
         THEN /\ region_image' = capture.image
              /\ captured_at' = attempt
              /\ events' = Append(events, "capture")
              /\ static' = (static /\ (attempt = 0 \/ capture.image = region_image))
              /\ missed' = IF Matchable(capture.image, image_variations,
                                        thresholds, args.bounding_box)
                           THEN missed ELSE missed + 1
              /\ ti' = 1
              /\ vi' = 1
              /\ pc' = "match"
              /\ UNCHANGED <<attempt, result>>
         ELSE /\ events' = Append(events, "capture_failed")
              /\ static' = FALSE
              /\ missed' = missed + 1
              /\ OnCaptureError
              /\ UNCHANGED <<region_image, captured_at, ti, vi>>
    /\ UNCHANGED <<disk, template_cache, op, args, image_variations, thresholds,
                   raised, caught, found, reads, match_calls>>
    /\ FacadeUnchanged

\* the capture of a screen with one match at most for each template
AnimCapture == AnimCaptureWith(AnimatedBuffers(args.bounding_box))

\* the two inner loops swapped: thresholds innermost
NextPairThresholdsInnermost ==
    IF ti < Len(thresholds)
    THEN ti' = ti + 1 /\ UNCHANGED <<vi, pc>>
    ELSE IF vi < Len(image_variations)
    THEN ti' = 1 /\ vi' = vi + 1 /\ UNCHANGED pc
    ELSE pc' = "settle" /\ UNCHANGED <<ti, vi>>

\* the step of the two inner loops: the next variation, then the next
\* threshold, then the end of the attempt
NextPair ==
    IF vi < Len(image_variations)
    THEN vi' = vi + 1 /\ UNCHANGED <<ti, pc>>
    ELSE IF ti < Len(thresholds)
    THEN vi' = 1 /\ ti' = ti + 1 /\ UNCHANGED pc
    ELSE pc' = "settle" /\ UNCHANGED <<ti, vi>>

\* a variation that cannot be loaded or matched ends the search
AbortOnVariationError ==
    /\ pc' = "done"
    /\ UNCHANGED <<ti, vi>>

\* "except FileNotFoundError: continue" and "except Exception as e: continue"
\* around the body of the variation loop
OnVariationError == NextPair

\* the body of "for variation in image_variations" for the current threshold
\* and variation: load_template, find_template_in_region, and either the
\* return of the click position or the skip to the next pair
AnimTry ==
    /\ pc = "match"
    /\ LET variation == image_variations[vi]
           threshold == thresholds[ti]
           load == LoadTemplate(template_cache, variation)
           template == load.template
           fails == \/ load.exc # NoException
                    \/ MatchTemplateFails(template, args.bounding_box[3],
                                          args.bounding_box[4])
           match_result ==
               IF fails THEN None
               ELSE FindTemplateInRegion(
                        Surface(region_image, variation, template,
                                args.bounding_box),
                        threshold)
       IN  /\ template_cache' = load.cache
           /\ reads' = CountRead(reads, template_cache, variation)
           /\ match_calls' = IF load.exc = NoException
                              THEN match_calls + 1 ELSE match_calls
           /\ IF fails
              THEN /\ OnVariationError
                   /\ UNCHANGED <<result, found>>
              ELSE IF match_result # None
              THEN /\ result' = ClickPosition(match_result, template,
                                              args.bounding_box,
                                              args.click_offset)
                   /\ found' = <<attempt, ti, vi>>
                   /\ pc' = "done"
                   /\ UNCHANGED <<ti, vi>>
              ELSE /\ NextPair
                   /\ UNCHANGED <<result, found>>
    /\ UNCHANGED <<disk, op, args, image_variations, thresholds, attempt,
                   region_image, raised, caught, events, missed, static,
                   captured_at>>
    /\ FacadeUnchanged

\* "if attempt < max_attempts - 1: time.sleep(0.2)" and the next attempt
AnimEndAttempt ==
    /\ pc = "settle"
    /\ events' = IF attempt < args.max_attempts - 1
                 THEN Append(events, "sleep") ELSE events
    /\ NextAttempt
    /\ UNCHANGED <<disk, template_cache, op, args, image_variations,
                   thresholds, ti, vi, region_image, raised, caught, found,
                   missed, static, reads, match_calls, captured_at>>
    /\ FacadeUnchanged

(***************************************************************************)
(* The state after ImageScanner(images_folder): an empty cache over an     *)
(* images folder.                                                          *)
(***************************************************************************)
EmptyCache == [n \in {} |-> Missing]

NoArgs == Args(<<>>, <<0, 0, 0, 0>>, 0, <<0, 0>>, 0)

\* the threads that share the scanner, and a thread that has not called
\* load_template
Threads == {"t1", "t2"}
IdleThread ==
    [pc |-> "idle", image_name |-> <<>>, template |-> Missing,
     exc |-> NoException, inserted |-> FALSE]

\* the folders holding a file with one of the given contents, or none, under
\* each of the given names
Folders(names, contents) ==
    UNION {[present -> contents] : present \in SUBSET names}

\* the union of two folders with no name in common
Both(f, g) ==
    [n \in DOMAIN f \cup DOMAIN g |-> IF n \in DOMAIN f THEN f[n] ELSE g[n]]

FirstVariation(n) == GenerateImageVariations(n)[1]
LastVariation(n) == GenerateImageVariations(n)[Len(GenerateImageVariations(n))]

InitScanner ==
    /\ template_cache = EmptyCache
    /\ pc = "idle"
    /\ op = "none"
    /\ args = NoArgs
    /\ image_variations = <<>>
    /\ thresholds = <<>>
    /\ attempt = 0
    /\ ti = 1
    /\ vi = 1
    /\ region_image = NoBuffer
    /\ result = None
    /\ raised = NoException
    /\ caught = NoException
    /\ found = None
    /\ events = <<>>
    /\ missed = 0
    /\ static = TRUE
    /\ reads = [n \in AllNames |-> 0]
    /\ calls = 0
    /\ image_names = <<>>
    /\ shots = <<>>
    /\ match_calls = 0
    /\ captured_at = -1
    /\ threads = [t \in Threads |-> IdleThread]

\* a folder with a file, or none, under one input name
InitStandard ==
    /\ \E n \in InputNames :
           disk \in Folders({FirstVariation(n)}, {Undecodable} \cup Shapes)
    /\ InitScanner

\* a folder with files, or none, under the first and the last variation of one
\* input name
Init ==
    /\ \E n \in InputNames :
           \E f \in Folders({FirstVariation(n)}, {Undecodable} \cup Shapes),
              g \in Folders({LastVariation(n)}, {Image(3, 5)}) :
               disk = Both(f, g)
    /\ InitScanner

NextStandard == Locate \/ LocateAll

NextAnimated == AnimStart \/ AnimCapture \/ AnimTry \/ AnimEndAttempt

Next == NextStandard \/ NextAnimated

\* one standard scan on a new scanner
SpecStandard == InitStandard /\ [][NextStandard]_vars

\* one animated scan on a new scanner
SpecAnimated == Init /\ [][NextAnimated]_vars

\* one scan of any kind on a new scanner
Spec == Init /\ [][Next]_vars

\* the steps of a call of _scan_animated_image after its start
AnimSteps == AnimCapture \/ AnimTry \/ AnimEndAttempt

\* one animated scan on a new scanner, base thresholds below 0.1 included
SpecAnimatedLow ==
    Init /\ [][AnimStartLow \/ AnimCapture \/ AnimTry \/ AnimEndAttempt]_vars

(***************************************************************************)
(* The module-level functions scan_for_image, scan_for_multiple_images,    *)
(* scan_for_all_occurrences and scan_image_with_bbox: each call makes an   *)
(* ImageScanner of its own and runs one method of it, here with            *)
(* animated_image=False. A process calls them one after the other; pc is   *)
(* "done" when a call has its result and "idle" between two calls.         *)
(***************************************************************************)
\* the most calls a process makes
MaxCalls == 2
\* the longest list scan_for_multiple_images is called with
MaxNames == 2

FacadeThresholds == {90}

\* capture_screen_region as a call of a module-level function can see it: one
\* peak at most in the surface of the template of image_name, at placement
\* (1, 0) or (2, 0), or an exception
FacadeBuffers(image_name, bounding_box) ==
    LET e == FileEntry(image_name)
        fits == IsTemplate(e) /\ PossiblePeaks(e, bounding_box) # {}
        choices == {{}} \cup
                   (IF fits
                    THEN {{[x |-> px, y |-> 0, conf |-> c]} :
                             px \in {1, 2}, c \in Confidences}
                    ELSE {})
    IN  {Captured([n \in {image_name} |-> s]) : s \in choices}
            \cup {CaptureFailed}

\* "scanner = ImageScanner(images_folder)" and what every module-level
\* function leaves alone
NewScanner ==
    /\ pc = "idle"
    /\ calls < MaxCalls
    /\ calls' = calls + 1
    /\ pc' = "done"
    /\ raised' = NoException
    /\ AnimUnchanged
    /\ UNCHANGED threads

\* the module-level scan_for_image(image_name, bounding_box, threshold,
\* click_offset)
ScanForImage ==
    /\ NewScanner
    /\ \E image_name \in InputNames, bounding_box \in BoundingBoxes,
          threshold \in FacadeThresholds, click_offset \in ClickOffsets :
         \E capture \in FacadeBuffers(image_name, bounding_box) :
            LET r == ScanStandardImage(EmptyCache, image_name, bounding_box,
                                       threshold, click_offset, capture)
            IN  /\ op' = "scan_for_image"
                /\ args' = Args(image_name, bounding_box, threshold,
                                click_offset, DefaultMaxAttempts)
                /\ template_cache' = r.cache
                /\ region_image' = r.region_image
                /\ result' = r.result
                /\ caught' = r.caught
                /\ events' = r.events
                /\ reads' = CountRead(reads, EmptyCache, image_name)
    /\ UNCHANGED <<image_names, shots>>

\* the module-level scan_for_all_occurrences(image_name, bounding_box,
\* threshold, click_offset)
ScanForAllOccurrences ==
    /\ NewScanner
    /\ \E image_name \in InputNames, bounding_box \in BoundingBoxes,
          threshold \in FacadeThresholds, click_offset \in ClickOffsets :
         \E capture \in FacadeBuffers(image_name, bounding_box) :
            LET r == ScanForAllImagesStandard(EmptyCache, image_name,
                                              bounding_box, threshold,
                                              click_offset, capture)
            IN  /\ op' = "scan_for_all_occurrences"
                /\ args' = Args(image_name, bounding_box, threshold,
                                click_offset, DefaultMaxAttempts)
                /\ template_cache' = r.cache
                /\ region_image' = r.region_image
                /\ result' = r.result
                /\ caught' = r.caught
                /\ events' = r.events
                /\ reads' = CountRead(reads, EmptyCache, image_name)
    /\ UNCHANGED <<image_names, shots>>

\* a dict as the list of its (key, value) items in insertion order;
\* "results[image_name] = location"
DictSet(items, key, value) ==
    IF \E i \in 1..Len(items) : items[i][1] = key
    THEN [i \in 1..Len(items) |->
             IF items[i][1] = key THEN <<key, value>> ELSE items[i]]
    ELSE Append(items, <<key, value>>)

\* a loop that stores the location of every name, found or not
RECURSIVE ScanMultipleLoopKeepsMisses(_, _, _, _, _, _, _, _)
ScanMultipleLoopKeepsMisses(cache, counts, names, bounding_box, threshold, captures, results, i) ==
    IF i > Len(names)
    THEN [result |-> results, cache |-> cache, reads |-> counts,
          events |-> <<>>]
    ELSE LET r == ScanStandardImage(cache, names[i], bounding_box, threshold,
                                    <<0, 0>>, captures[i])
             rest == ScanMultipleLoopKeepsMisses(
                         r.cache, CountRead(counts, cache, names[i]), names,
                         bounding_box, threshold, captures,
                         DictSet(results, names[i], r.result), i + 1)
         IN  [rest EXCEPT !.events = r.events \o @]

\* the loop "for image_name in image_names" of scan_for_multiple_images from
\* index i on, where captures[i] is what capture_screen_region gives when the
\* scan of image_names[i] calls it: the dict returned, the cache and the read
\* counts afterwards and the captures made
RECURSIVE ScanMultipleLoop(_, _, _, _, _, _, _, _)
ScanMultipleLoop(cache, counts, names, bounding_box, threshold, captures, results, i) ==
    IF i > Len(names)
    THEN [result |-> results, cache |-> cache, reads |-> counts,
          events |-> <<>>]
    ELSE LET r == ScanStandardImage(cache, names[i], bounding_box, threshold,
                                    <<0, 0>>, captures[i])
             location == r.result
             rest == ScanMultipleLoop(r.cache,
                                      CountRead(counts, cache, names[i]),
                                      names, bounding_box, threshold, captures,
                                      IF location # None
                                      THEN DictSet(results, names[i], location)
                                      ELSE results,
                                      i + 1)
         IN  [rest EXCEPT !.events = r.events \o @]

\* the lists of at most MaxNames input names
NameLists == UNION {[1..k -> InputNames] : k \in 0..MaxNames}

\* the module-level scan_for_multiple_images(image_names, bounding_box,
\* threshold)
ScanForMultipleImages ==
    /\ NewScanner
    /\ \E names \in NameLists, bounding_box \in BoundingBoxes,
          threshold \in FacadeThresholds :
         \E captures \in [1..Len(names) ->
                             UNION {FacadeBuffers(n, bounding_box) :
                                       n \in InputNames}] :
            /\ \A i \in 1..Len(names) :
                   captures[i] \in FacadeBuffers(names[i], bounding_box)
            /\ LET r == ScanMultipleLoop(EmptyCache, reads, names, bounding_box,
                                         threshold, captures, <<>>, 1)
               IN  /\ op' = "scan_for_multiple_images"
                   /\ image_names' = names
                   /\ shots' = captures
                   /\ args' = Args(<<>>, bounding_box, threshold, <<0, 0>>,
                                   DefaultMaxAttempts)
                   /\ template_cache' = r.cache
                   /\ result' = r.result
                   /\ reads' = r.reads
                   /\ events' = r.events
    /\ region_image' = NoBuffer
    /\ caught' = NoException

\* the bbox (left, top, right, bottom) an automation helper reports, and the
\* one a caller passes
HelperBbox == <<100, 50, 108, 56>>

\* the loop "for x, y in locations" of scan_image_with_bbox
BboxResults(locations, left, top) ==
    [i \in 1..Len(locations) |->
        [absolute |-> locations[i],
         relative |-> <<locations[i][1] - left, locations[i][2] - top>>]]

\* scan_image_with_bbox(automation_helper, image_name, threshold, bbox=bbox);
\* an automation helper is given by the bbox its get_bbox() reports, and
\* search_area by the two numbers it is formatted from
ScanImageWithBbox ==
    /\ NewScanner
    /\ \E automation_helper \in {None, HelperBbox}, bbox_arg \in {None, HelperBbox},
          image_name \in InputNames, threshold \in FacadeThresholds :
         IF bbox_arg = None /\ automation_helper = None
         THEN /\ result' = [success |-> FALSE,
                            error |-> "An error occurred while scanning"]
              /\ op' = "scan_image_with_bbox"
              /\ args' = Args(image_name, <<0, 0, 0, 0>>, threshold, <<0, 0>>,
                              DefaultMaxAttempts)
              /\ caught' = "ValueError"
              /\ events' = <<>>
              /\ region_image' = NoBuffer
              /\ UNCHANGED <<template_cache, reads>>
         ELSE LET bbox == IF bbox_arg = None THEN automation_helper ELSE bbox_arg
                  left == bbox[1]
                  top == bbox[2]
                  right == bbox[3]
                  bottom == bbox[4]
                  bounding_box == <<left, top, right - left, bottom - top>>
              IN  \E capture \in FacadeBuffers(image_name, bounding_box) :
                     LET r == ScanForAllImagesStandard(
                                  EmptyCache, image_name, bounding_box,
                                  threshold, <<0, 0>>, capture)
                         locations == r.result
                     IN  /\ op' = "scan_image_with_bbox"
                         /\ args' = Args(image_name, bounding_box, threshold,
                                         <<0, 0>>, DefaultMaxAttempts)
                         /\ result' =
                                [success |-> TRUE,
                                 image_name |-> image_name,
                                 threshold |-> threshold,
                                 bbox |-> bbox,
                                 search_area |-> <<bounding_box[3],
                                                   bounding_box[4]>>,
                                 found_count |-> Len(locations),
                                 locations |-> BboxResults(locations, left, top)]
                         /\ template_cache' = r.cache
                         /\ region_image' = r.region_image
                         /\ caught' = r.caught
                         /\ events' = r.events
                         /\ reads' = CountRead(reads, EmptyCache, image_name)
    /\ UNCHANGED <<image_names, shots>>

\* the return of a module-level function to a caller that goes on to call
\* another: the value returned is the caller's, the scanner of the call and
\* everything it held are gone
Return ==
    /\ pc = "done"
    /\ op \in {"scan_for_image", "scan_for_multiple_images",
                "scan_for_all_occurrences", "scan_image_with_bbox"}
    /\ calls < MaxCalls
    /\ pc' = "idle"
    /\ op' = "none"
    /\ args' = NoArgs
    /\ template_cache' = EmptyCache
    /\ region_image' = NoBuffer
    /\ result' = None
    /\ caught' = NoException
    /\ events' = <<>>
    /\ image_names' = <<>>
    /\ shots' = <<>>
    /\ UNCHANGED <<calls, reads, raised, threads>>
    /\ AnimUnchanged

NextFacade ==
    \/ ScanForImage
    \/ ScanForMultipleImages
    \/ ScanForAllOccurrences
    \/ ScanImageWithBbox
    \/ Return

\* a process calling the module-level functions one after the other
SpecFacade == Init /\ [][NextFacade]_vars

(***************************************************************************)
(* _generate_image_variations called on its own, over names with and       *)
(* without a state suffix, an extension, a dot in the stem, an empty stem. *)
(***************************************************************************)
VariationRoots ==
    { <<>>, <<"b">>, <<"b","t","n">>, <<"i","c","o","n">>, <<"a",".","b">>,
      <<"x","-","h","o","v","e","r">>, <<"-">> }

\* what a stem ends with: nothing, a state suffix, or a near miss of one
VariationEndings ==
    {<<>>, <<"-","f","o","c","u","s">>, <<"n","o","r","m","a","l">>}
        \cup {state_suffixes[k] : k \in 1..NumSuffixes}

\* no extension, .png, .bmp, and a name that ends with its dot
VariationExtensions ==
    { <<>>, <<".","p","n","g">>, <<".","b","m","p">>, <<".">> }

VariationInputs ==
    {r \o e \o x : r \in VariationRoots, e \in VariationEndings,
                   x \in VariationExtensions}

\* a call of _generate_image_variations(image_name)
GenerateVariations ==
    /\ pc = "idle"
    /\ \E image_name \in VariationInputs :
         /\ args' = Args(image_name, <<0, 0, 0, 0>>, 0, <<0, 0>>, 0)
         /\ image_variations' = GenerateImageVariations(image_name)
    /\ op' = "variations"
    /\ pc' = "done"
    /\ UNCHANGED <<disk, template_cache, thresholds, attempt, ti, vi,
                   region_image, result, raised, caught, found, events,
                   missed, static, reads, match_calls, captured_at>>
    /\ FacadeUnchanged

SpecVariations == Init /\ [][GenerateVariations]_vars

(***************************************************************************)
(* load_template called on its own, again and again on one scanner.        *)
(***************************************************************************)
\* the most calls of load_template
MaxLoads == 3

\* scanner.load_template(image_name)
Load ==
    /\ pc = "idle"
    /\ calls < MaxLoads
    /\ \E image_name \in AllNames :
         LET load == LoadTemplate(template_cache, image_name)
         IN  /\ args' = Args(image_name, <<0, 0, 0, 0>>, 0, <<0, 0>>, 0)
             /\ template_cache' = load.cache
             /\ raised' = load.exc
             /\ result' = IF load.exc = NoException THEN load.template
                           ELSE None
             /\ reads' = CountRead(reads, template_cache, image_name)
    /\ op' = "load"
    /\ calls' = calls + 1
    /\ UNCHANGED <<disk, pc, image_variations, thresholds, attempt, ti, vi,
                   region_image, caught, found, events, missed, static,
                   image_names, shots, match_calls, captured_at, threads>>

SpecStore == Init /\ [][Load]_vars

(***************************************************************************)
(* load_template called by two threads on one shared scanner: a thread     *)
(* can be switched out between any two of the steps of its call.           *)
(***************************************************************************)
\* what the threads leave alone
ThreadsUnchanged ==
    UNCHANGED <<disk, pc, op, args, image_variations, thresholds, attempt, ti,
                vi, region_image, result, raised, caught, found, events,
                missed, static, calls, image_names, shots, match_calls,
                captured_at>>

\* thread t at "where" in its call, otherwise as it was
At(t, where) == [threads EXCEPT ![t].pc = where]

\* a thread calls scanner.load_template(image_name)
ThreadCall ==
    \E t \in Threads, image_name \in InputNames :
        /\ threads[t].pc = "idle"
        /\ threads' = [threads EXCEPT ![t].pc = "lookup",
                                      ![t].image_name = image_name]
        /\ UNCHANGED <<template_cache, reads>>
        /\ ThreadsUnchanged

\* "if image_name in self.template_cache: return self.template_cache[...]"
ThreadLookup ==
    \E t \in Threads :
        /\ threads[t].pc = "lookup"
        /\ IF threads[t].image_name \in DOMAIN template_cache
           THEN threads' =
                    [threads EXCEPT
                        ![t].pc = "returned",
                        ![t].template = template_cache[threads[t].image_name]]
           ELSE threads' = At(t, "exists")
        /\ UNCHANGED <<template_cache, reads>>
        /\ ThreadsUnchanged

\* "if not os.path.exists(image_path): raise FileNotFoundError(...)"
ThreadExists ==
    \E t \in Threads :
        /\ threads[t].pc = "exists"
        /\ IF FileEntry(threads[t].image_name) = Missing
           THEN threads' = [threads EXCEPT ![t].pc = "raised",
                                           ![t].exc = "FileNotFoundError"]
           ELSE threads' = At(t, "imread")
        /\ UNCHANGED <<template_cache, reads>>
        /\ ThreadsUnchanged

\* "template = cv2.imread(image_path, cv2.IMREAD_COLOR)" and
\* "if template is None: raise ValueError(...)"
ThreadImread ==
    \E t \in Threads :
        /\ threads[t].pc = "imread"
        /\ reads' = [reads EXCEPT ![threads[t].image_name] = @ + 1]
        /\ IF FileEntry(threads[t].image_name) = Undecodable
           THEN threads' = [threads EXCEPT ![t].pc = "raised",
                                           ![t].exc = "ValueError"]
           ELSE threads' =
                    [threads EXCEPT
                        ![t].pc = "insert",
                        ![t].template = FileEntry(threads[t].image_name)]
        /\ UNCHANGED template_cache
        /\ ThreadsUnchanged

\* "self.template_cache[image_name] = template" and "return template"
ThreadInsert ==
    \E t \in Threads :
        /\ threads[t].pc = "insert"
        /\ template_cache' =
               [n \in DOMAIN template_cache \cup {threads[t].image_name} |->
                   IF n = threads[t].image_name THEN threads[t].template
                   ELSE template_cache[n]]
        /\ threads' = [threads EXCEPT ![t].pc = "returned",
                                      ![t].inserted = TRUE]
        /\ UNCHANGED reads
        /\ ThreadsUnchanged

NextThreads ==
    \/ ThreadCall
    \/ ThreadLookup
    \/ ThreadExists
    \/ ThreadImread
    \/ ThreadInsert

\* two threads, each with one call of load_template on the shared scanner
SpecThreads == InitStandard /\ [][NextThreads]_vars

(***************************************************************************)
(* The three scans with click offset (0, 0), of a template of any size up  *)
(* to the size of the region, on screens that show it at any placement.    *)
(***************************************************************************)
\* the width and the height of the region searched
MaxWidth == 4
MaxHeight == 3
SizeRegion == <<100, 50, MaxWidth, MaxHeight>>

\* the sizes a template can have in the region
Sizes == {Image(w, h) : w \in 1..MaxWidth, h \in 1..MaxHeight}

\* the peaks a surface can have for a template in the region: any placement
PeaksAnywhere(template, bounding_box) ==
    IF MatchTemplateFails(template, bounding_box[3], bounding_box[4]) THEN {}
    ELSE [x : ResultXs(template, bounding_box[3]),
          y : ResultYs(template, bounding_box[4]),
          conf : {95}]

\* capture_screen_region on a screen that shows the template of image_name at
\* up to k placements
BuffersAnywhere(image_name, bounding_box, k) ==
    LET e == FileEntry(image_name)
        cands == IF IsTemplate(e) THEN PeaksAnywhere(e, bounding_box) ELSE {}
    IN  {Captured([n \in {image_name} |-> s]) :
             s \in {t \in PeakSets(cands, k) : WellFormed(t)}}

\* scan_for_image(image_name, bounding_box, threshold) with
\* animated_image=False and the default click offset
LocateAnywhere ==
    /\ pc = "idle"
    /\ \E image_name \in DOMAIN disk, threshold \in FacadeThresholds :
         \E capture \in BuffersAnywhere(image_name, SizeRegion, 1) :
            LET r == ScanStandardImage(template_cache, image_name, SizeRegion,
                                       threshold, <<0, 0>>, capture)
            IN  /\ op' = "locate"
                /\ args' = Args(image_name, SizeRegion, threshold, <<0, 0>>,
                                DefaultMaxAttempts)
                /\ template_cache' = r.cache
                /\ region_image' = r.region_image
                /\ result' = r.result
                /\ caught' = r.caught
                /\ events' = events \o r.events
                /\ reads' = CountRead(reads, template_cache, image_name)
    /\ raised' = NoException
    /\ pc' = "done"
    /\ AnimUnchanged
    /\ FacadeUnchanged

\* scan_for_all_images(image_name, bounding_box, threshold) with
\* animated_image=False and the default click offset
LocateAllAnywhere ==
    /\ pc = "idle"
    /\ \E image_name \in DOMAIN disk, threshold \in FacadeThresholds :
         \E capture \in BuffersAnywhere(image_name, SizeRegion, 2) :
            LET r == ScanForAllImagesStandard(template_cache, image_name,
                                              SizeRegion, threshold, <<0, 0>>,
                                              capture)
            IN  /\ op' = "locateAll"
                /\ args' = Args(image_name, SizeRegion, threshold, <<0, 0>>,
                                DefaultMaxAttempts)
                /\ template_cache' = r.cache
                /\ region_image' = r.region_image
                /\ result' = r.result
                /\ caught' = r.caught
                /\ events' = events \o r.events
                /\ reads' = CountRead(reads, template_cache, image_name)
    /\ raised' = NoException
    /\ pc' = "done"
    /\ AnimUnchanged
    /\ FacadeUnchanged

\* scan_for_image(image_name, bounding_box, threshold, animated_image=True)
\* with the default click offset, one attempt
AnimStartAnywhere == AnimStartWith({SizeRegion}, FacadeThresholds, {<<0, 0>>}, {1})

\* its capture, of a screen that shows the template at one placement at most
AnimCaptureAnywhere ==
    AnimCaptureWith(UNION {BuffersAnywhere(n, SizeRegion, 1) : n \in DOMAIN disk})

\* a folder with one image, of any size up to the size of the region
InitSizes ==
    /\ disk \in [{IconPng} -> Sizes]
    /\ InitScanner

NextSizes ==
    \/ LocateAnywhere
    \/ LocateAllAnywhere
    \/ AnimStartAnywhere
    \/ AnimCaptureAnywhere
    \/ AnimTry
    \/ AnimEndAttempt

SpecSizes == InitSizes /\ [][NextSizes]_vars

(***************************************************************************)
(* The thresholds of _scan_animated_image for any base threshold, next to  *)
(* the animated scans that pass them to find_template_in_region.           *)
(***************************************************************************)
\* base thresholds in hundredths, from below 0 to above 1
ScheduleBases == (0 - 10)..110

\* "thresholds = [base_threshold, ...]" and "thresholds = [max(0.1, t) ...]"
\* of a call with any base threshold
Schedule ==
    /\ pc = "idle"
    /\ \E base_threshold \in ScheduleBases :
         /\ args' = [NoArgs EXCEPT !.threshold = base_threshold]
         /\ thresholds' = ThresholdSchedule(base_threshold)
    /\ op' = "schedule"
    /\ pc' = "done"
    /\ UNCHANGED <<disk, template_cache, image_variations, attempt, ti, vi,
                   region_image, result, raised, caught, found, events,
                   missed, static, reads, match_calls, captured_at>>
    /\ FacadeUnchanged

SpecSchedule == Init /\ [][Schedule \/ NextAnimated]_vars

(***************************************************************************)
(* Properties of the standard scans.                                       *)
(***************************************************************************)
Done(o) == pc = "done" /\ op = o

\* the template a finished scan of args.image_name matched with
ScannedTemplate == FileEntry(args.image_name)

\* whether the finished standard scan loaded its template, captured the
\* region and got a result array from cv2.matchTemplate
Matched == caught = NoException /\ IsTemplate(ScannedTemplate)

\* the result array of the finished standard scan
ScannedSurface ==
    Surface(region_image, args.image_name, ScannedTemplate, args.bounding_box)

\* the raw matches of the finished standard scan: the peaks of the surface
\* that reach the threshold, as (x, y, confidence)
RawPeaks ==
    {<<p.x, p.y, p.conf>> :
        p \in {q \in PeaksOf(region_image, args.image_name) :
                  q.conf >= args.threshold}}

\* 4 * (squared distance) of two points or placements
Dist2x4(a, b) ==
    4 * ((a[1] - b[1]) * (a[1] - b[1]) + (a[2] - b[2]) * (a[2] - b[2]))

\* (2 * min_distance)^2 for the scanned template
MinSide2 ==
    Min(ScannedTemplate.w, ScannedTemplate.h)
        * Min(ScannedTemplate.w, ScannedTemplate.h)

\* the absolute center of a placement of the scanned template, shifted by the
\* click offset
CenterOf(m) ==
    <<args.bounding_box[1] + m[1] + ScannedTemplate.w \div 2
          + args.click_offset[1],
      args.bounding_box[2] + m[2] + ScannedTemplate.h \div 2
          + args.click_offset[2]>>

\* C1: no two coordinates a standard locateAll returns are at a Euclidean
\* distance below 0.5 * min(template width, template height).
C1_NoTwoOccurrencesTooClose ==
    Done("locateAll") =>
        \A i, j \in 1..Len(result) :
            i # j => Dist2x4(result[i], result[j]) >= MinSide2

\* a locateAll that returned two coordinates after suppressing a raw match
C1_Witness ==
    /\ Done("locateAll")
    /\ Len(result) = 2
    /\ Cardinality(RawPeaks) = 3

\* C5: a standard locate or locateAll whose template file is missing or
\* undecodable, or whose capture fails, ends with an error that reaches the
\* caller.
C5_FaultsReachTheCaller ==
    ((Done("locate") \/ Done("locateAll"))
        /\ caught \in {"FileNotFoundError", "ValueError", CaptureError})
    => raised # NoException

ClusterOf(b) == {m \in RawPeaks : Dist2x4(m, b) < MinSide2}

WellSpacedBests(bests) ==
    /\ \A m \in RawPeaks :
           Cardinality({b \in bests : Dist2x4(m, b) < MinSide2}) = 1
    /\ \A b \in bests : \A m \in ClusterOf(b) \ {b} :
           \/ m[3] < b[3]
           \/ (m[3] = b[3] /\ RowMajorBefore(b, m))
    /\ \A b1, b2 \in bests : b1 # b2 =>
           \A m1 \in ClusterOf(b1), m2 \in ClusterOf(b2) :
               Dist2x4(m1, m2) >= MinSide2

\* C10: when the raw matches form k well-spaced clusters, locateAll returns
\* exactly k coordinates: the centers of the best matches of the clusters.
C10_OneOccurrencePerCluster ==
    (Done("locateAll") /\ Matched) =>
        \A bests \in SUBSET RawPeaks :
            WellSpacedBests(bests) =>
                /\ Len(result) = Cardinality(bests)
                /\ {result[i] : i \in 1..Len(result)}
                       = {CenterOf(b) : b \in bests}

\* three raw matches in two well-spaced clusters
C10_Witness ==
    /\ Done("locateAll")
    /\ Matched
    /\ Cardinality(RawPeaks) = 3
    /\ \E bests \in SUBSET RawPeaks :
           Cardinality(bests) = 2 /\ WellSpacedBests(bests)
    /\ Len(result) = 2

\* three well-spaced copies
C10_ThreeCopies ==
    /\ Done("locateAll")
    /\ Matched
    /\ WellSpacedBests(RawPeaks)
    /\ Len(result) = 3

\* what find_all_templates_in_region returned in the finished scan: the
\* matches that survived _remove_overlapping_matches
Survivors ==
    FindAllTemplatesInRegion(ScannedSurface, ScannedTemplate, args.threshold)

\* C16: every match that survives the suppression is a raw match, with its
\* position and confidence as they were, and when there are raw matches the
\* one of the highest confidence (the answer of find_template_in_region)
\* survives.
C16_SurvivorsAreRawAndBestSurvives ==
    (Done("locateAll") /\ Matched) =>
        LET survivors == Survivors
        IN  /\ \A i \in 1..Len(survivors) : survivors[i] \in RawPeaks
            /\ result = [i \in 1..Len(survivors) |-> CenterOf(survivors[i])]
            /\ \A i \in 1..Len(result) :
                   \E m \in RawPeaks : result[i] = CenterOf(m)
            /\ RawPeaks # {} =>
                   LET best == FindTemplateInRegion(ScannedSurface,
                                                    args.threshold)
                   IN  /\ best \in RawPeaks
                       /\ \A m \in RawPeaks : m[3] <= best[3]
                       /\ \E i \in 1..Len(survivors) : survivors[i] = best
                       /\ \E i \in 1..Len(result) : result[i] = CenterOf(best)

\* a raw match suppressed by a later one of a higher confidence
C16_Witness ==
    /\ Done("locateAll")
    /\ Matched
    /\ Len(result) < Cardinality(RawPeaks)
    /\ \E a, b \in RawPeaks :
           /\ RowMajorBefore(a, b)
           /\ a[3] < b[3]
           /\ Dist2x4(a, b) < MinSide2
           /\ \A i \in 1..Len(result) : result[i] # CenterOf(a)

\* C17: matching a template that is wider or taller than the captured buffer
\* is no error and gives no candidates: find_template_in_region returns None
\* and find_all_templates_in_region returns the empty list.
C17_OversizeTemplateIsNoError ==
    (/\ pc = "done"
     /\ op \in {"locate", "locateAll"}
     /\ IsTemplate(ScannedTemplate)
     /\ events = <<"capture">>
     /\ MatchTemplateFails(ScannedTemplate, args.bounding_box[3],
                           args.bounding_box[4]))
        => (caught = NoException /\ result = None)

(***************************************************************************)
(* Properties of the animated scan.                                        *)
(***************************************************************************)
Animated == op = "animated"

\* the captures made so far, failed ones included
Captures ==
    Cardinality({i \in 1..Len(events) :
                    events[i] \in {"capture", "capture_failed"}})

LastCaptureSucceeded == events # <<>> /\ events[Len(events)] = "capture"

\* whether pair (t1, v1) comes before pair (t2, v2) in an attempt
PairBefore(t1, v1, t2, v2) == t1 < t2 \/ (t1 = t2 /\ v1 < v2)

\* whether the (threshold, variation) pair matches on the last capture
PairMatchesNow(t, v) ==
    PairMatches(region_image, image_variations[v], thresholds[t],
                args.bounding_box)

\* the best score of the surface the last capture has with a variation
BestScore(v) ==
    LET e == FileEntry(image_variations[v])
        surface == Surface(region_image, image_variations[v], e,
                           args.bounding_box)
    IN  CHOOSE c \in {surface[pt] : pt \in DOMAIN surface} :
            \A pt \in DOMAIN surface : surface[pt] <= c

\* whether a position is the absolute center, shifted by the click offset, of
\* a best-scoring placement of a variation on the last capture
IsBestCenter(pos, v) ==
    LET e == FileEntry(image_variations[v])
        surface == Surface(region_image, image_variations[v], e,
                           args.bounding_box)
    IN  \E pt \in DOMAIN surface :
            /\ surface[pt] = BestScore(v)
            /\ pos = <<args.bounding_box[1] + pt[1] + e.w \div 2
                           + args.click_offset[1],
                       args.bounding_box[2] + pt[2] + e.h \div 2
                           + args.click_offset[2]>>

AllPairs == (1..Len(thresholds)) \X (1..Len(image_variations))

\* C2: the (attempt, threshold, variation) triples are tried in lexicographic
\* order, thresholds from the base downward, and the result is the match of the
\* first triple that matches; nothing is evaluated after it.
C2_FirstTripleWins ==
    Animated =>
        /\ thresholds[1] = Max(10, args.threshold)
        /\ \A i, j \in 1..Len(thresholds) :
               i < j => thresholds[i] >= thresholds[j]
        /\ pc \in {"capture", "match", "settle"} => missed >= attempt
        /\ pc = "match" =>
               \A p \in AllPairs :
                   PairBefore(p[1], p[2], ti, vi) => ~PairMatchesNow(p[1], p[2])
        /\ pc = "settle" => \A p \in AllPairs : ~PairMatchesNow(p[1], p[2])
        /\ (pc = "done" /\ result # None) =>
               /\ found = <<attempt, ti, vi>>
               /\ missed = attempt
               /\ PairMatchesNow(ti, vi)
               /\ \A p \in AllPairs :
                      PairBefore(p[1], p[2], ti, vi)
                          => ~PairMatchesNow(p[1], p[2])
               /\ IsBestCenter(result, vi)
        /\ pc = "done" => ~ENABLED NextAnimated

\* a match returned although a later variation scores higher on the same
\* capture
C2_Witness ==
    /\ Animated
    /\ pc = "done"
    /\ result # None
    /\ \E v \in 1..Len(image_variations) :
           /\ v > vi
           /\ PairMatchesNow(ti, v)
           /\ BestScore(v) > BestScore(vi)

\* C3: when the capture of attempt k <= max_attempts is the first one on which
\* some pair matches, the scan returns the center of that match after exactly
\* k captures; when no capture up to max_attempts has a matching pair, it
\* returns None after max_attempts captures.
C3_MatchOnAttemptK ==
    (Animated /\ pc = "done") =>
        /\ result # None =>
               /\ missed = attempt
               /\ Captures = attempt + 1
               /\ attempt + 1 <= args.max_attempts
               /\ LastCaptureSucceeded
               /\ Matchable(region_image, image_variations, thresholds,
                            args.bounding_box)
               /\ IsBestCenter(result, found[3])
        /\ result = None =>
               /\ missed = args.max_attempts
               /\ Captures = args.max_attempts

\* no match on attempts 1 and 2, a match on attempt 3
C3_Witness ==
    /\ Animated
    /\ pc = "done"
    /\ result # None
    /\ attempt = 2
    /\ missed = 2
    /\ "capture_failed" \notin {events[i] : i \in 1..Len(events)}

\* what locate gives for the arguments of the animated scan on its last capture
LocateOnSameScreen ==
    ScanStandardImage(template_cache, args.image_name, args.bounding_box,
                      args.threshold, args.click_offset,
                      Captured(region_image)).result

\* C4: on a static screen where the template's best confidence is c, the
\* animated scan with base threshold b returns a coordinate whenever
\* c >= max(0.1, b - 0.25), and locate with threshold b returns None whenever
\* c < b.
C4_RelaxationFindsLowConfidence ==
    (Animated /\ pc = "done" /\ static
        /\ IsTemplate(ScannedTemplate)
        /\ ~MatchTemplateFails(ScannedTemplate, args.bounding_box[3],
                               args.bounding_box[4]))
    => /\ BestScore(1) >= Max(10, args.threshold - 25) => result # None
       /\ BestScore(1) < args.threshold => LocateOnSameScreen = None

\* a static screen with the template at 0.55 and nothing else: the animated
\* scan from 0.8 finds it, locate at 0.8 does not
C4_Witness ==
    /\ Animated
    /\ pc = "done"
    /\ static
    /\ IsTemplate(ScannedTemplate)
    /\ ~MatchTemplateFails(ScannedTemplate, args.bounding_box[3],
                           args.bounding_box[4])
    /\ args.threshold = 80
    /\ BestScore(1) = 55
    /\ \A n \in DOMAIN region_image :
           n # args.image_name => region_image[n] = {}
    /\ result # None
    /\ LocateOnSameScreen = None

\* whether locate on the screen of the animated scan returns a coordinate,
\* where the scan has captured, every capture so far succeeded and all showed
\* the same screen
LocateFindsOnStaticScreen ==
    /\ Animated
    /\ static
    /\ captured_at >= 0
    /\ "capture_failed" \notin {events[i] : i \in 1..Len(events)}
    /\ LocateOnSameScreen # None

\* where an animated scan is that tries, or has found a match with, its first
\* threshold and the original name in its first attempt, and what it returns
FoundAtOnce ==
    /\ attempt = 0
    /\ pc \in {"match", "done"}
    /\ pc = "match" => (ti = 1 /\ vi = 1)
    /\ pc = "done" =>
           /\ result = LocateOnSameScreen
           /\ found = <<0, 1, 1>>
           /\ thresholds[found[2]] = thresholds[1]
           /\ image_variations[found[3]] = args.image_name

\* C28 as stated: on a static screen with no capture failure, for every
\* threshold t, whenever standard locate(name, region, t, offset) returns a
\* coordinate p the animated scan of the same arguments returns p as well,
\* found in its first attempt with the first threshold of the schedule and
\* the original name.
C28_LocateImpliesAnimatedAtOnce ==
    LocateFindsOnStaticScreen => FoundAtOnce

\* C28, amended: the same for every threshold t >= 0.1.
C28_LocateImpliesAnimatedAtOnceFromFloor ==
    (LocateFindsOnStaticScreen /\ args.threshold >= 10) => FoundAtOnce

\* a scan from 0.8 that returns what locate returns, found at once, with
\* another variation on disk that matches as well
C28_Witness ==
    /\ LocateFindsOnStaticScreen
    /\ args.threshold = 80
    /\ pc = "done"
    /\ result = LocateOnSameScreen
    /\ found = <<0, 1, 1>>
    /\ BestScore(1) >= 80
    /\ Cardinality(DOMAIN region_image) = 2

\* C6: a capture failure in the animated scan is a failed attempt: the loop
\* goes on with the next attempt, a later capture that succeeds and matches
\* gives the coordinate, and when every capture fails the result is None and
\* no error.
C6_CaptureFailureIsAFailedAttempt ==
    Animated =>
        /\ raised = NoException
        /\ missed >= Cardinality({i \in 1..Len(events) :
                                     events[i] = "capture_failed"})
        /\ pc # "done" => attempt < args.max_attempts
        /\ pc = "done" =>
               /\ result = None => Captures = args.max_attempts
               /\ (\A i \in 1..Len(events) : events[i] # "capture")
                      => result = None
               /\ (LastCaptureSucceeded
                     /\ Matchable(region_image, image_variations, thresholds,
                                  args.bounding_box))
                      => result # None

\* a coordinate returned by an attempt that followed a failed capture
C6_Witness ==
    /\ Animated
    /\ pc = "done"
    /\ result # None
    /\ Len(events) >= 3
    /\ events[Len(events) - 1] = "capture_failed"
    /\ events[Len(events)] = "capture"

\* C7: a variation whose file is missing is skipped: the other variations and
\* thresholds of the pass are still tried, a match of a variation that is
\* there is returned, and when none of them matches the result is None and no
\* error.
C7_MissingVariationsAreSkipped ==
    (Animated /\ pc = "done") =>
        /\ raised = NoException
        /\ LastCaptureSucceeded =>
               (result # None <=>
                    \E p \in AllPairs :
                        /\ IsTemplate(FileEntry(image_variations[p[2]]))
                        /\ PairMatchesNow(p[1], p[2]))
        /\ result # None =>
               /\ IsTemplate(FileEntry(image_variations[found[3]]))
               /\ IsBestCenter(result, found[3])

\* the last variation matched, the files of all variations before it missing
C7_Witness ==
    /\ Animated
    /\ pc = "done"
    /\ result # None
    /\ found[3] = Len(image_variations)
    /\ \A v \in 1..(Len(image_variations) - 1) :
           FileEntry(image_variations[v]) = Missing

\* how far a running animated scan has come: the steps a scan with no match
\* and no capture failure has made when it is where this one is
StepsPerAttempt == 6 * Len(image_variations) + 2
ProgressAtEnd == args.max_attempts * StepsPerAttempt
Progress ==
    IF pc = "done" THEN ProgressAtEnd
    ELSE attempt * StepsPerAttempt
         + (IF pc = "capture" THEN 0
            ELSE IF pc = "match"
            THEN 1 + (ti - 1) * Len(image_variations) + (vi - 1)
            ELSE StepsPerAttempt - 1)

\* C15: every animated scan ends, with a coordinate or with None, after at
\* most max_attempts captures and at most max_attempts * 6 * (number of
\* variations) template matches, whatever the screen shows, whichever files
\* are missing and whichever captures fail; after its end there is no
\* further capture or match. (It ends: while it runs a step is enabled, and
\* every step brings it nearer to the end by a bounded measure.)
C15_AnimatedScanEndsWithinBudget ==
    /\ [](Animated =>
            /\ Captures <= args.max_attempts
            /\ match_calls <= args.max_attempts * 6 * Len(image_variations)
            /\ Progress <= ProgressAtEnd
            /\ pc # "done" => ENABLED AnimSteps
            /\ pc = "done" => (result = None \/ Len(result) = 2))
    /\ [][Animated => Progress' > Progress]_vars
    /\ [][pc = "done" => UNCHANGED <<pc, result, events, match_calls>>]_vars

\* a scan that ends with None after max_attempts captures, each matched
\* against both templates on disk at every threshold
C15_Witness ==
    /\ Animated
    /\ pc = "done"
    /\ result = None
    /\ args.max_attempts = MaxAttempts
    /\ Captures = args.max_attempts
    /\ match_calls = args.max_attempts * 6 * 2

(***************************************************************************)
(* Properties of all scans.                                                *)
(***************************************************************************)
\* the absolute position the claim gives for an accepted placement m of
\* template e
TranslatedCenter(m, e) ==
    <<args.bounding_box[1] + m[1] + e.w \div 2 + args.click_offset[1],
      args.bounding_box[2] + m[2] + e.h \div 2 + args.click_offset[2]>>

\* C9: the coordinate returned for an accepted placement with top-left
\* (tx, ty) is (region.left + tx + template_width // 2 + offset_x,
\* region.top + ty + template_height // 2 + offset_y), in locate, locateAll
\* and the animated scan alike; so a region with one copy of the template and
\* a zero offset gives the center of the copy.
C9_ClickPositionIsTranslatedCenter ==
    /\ (Done("locate") /\ result # None) =>
           /\ result = TranslatedCenter(
                           FindTemplateInRegion(ScannedSurface, args.threshold),
                           ScannedTemplate)
           /\ \A p \in PeaksOf(region_image, args.image_name) :
                  (PeaksOf(region_image, args.image_name) = {p}
                      /\ args.click_offset = <<0, 0>>)
                  => result = <<args.bounding_box[1] + p.x
                                    + ScannedTemplate.w \div 2,
                                args.bounding_box[2] + p.y
                                    + ScannedTemplate.h \div 2>>
    /\ (Done("locateAll") /\ Matched) =>
           LET matches == FindAllTemplatesInRegion(ScannedSurface,
                                                   ScannedTemplate,
                                                   args.threshold)
           IN  /\ Len(result) = Len(matches)
               /\ \A i \in 1..Len(matches) :
                      result[i] = TranslatedCenter(matches[i], ScannedTemplate)
    /\ (Done("animated") /\ result # None) =>
           LET variation == image_variations[found[3]]
               e == FileEntry(variation)
           IN  result = TranslatedCenter(
                            FindTemplateInRegion(
                                Surface(region_image, variation, e,
                                        args.bounding_box),
                                thresholds[found[2]]),
                            e)

\* a locate with a zero offset on a region with one copy of a 3 x 5 template
C9_Witness ==
    /\ Done("locate")
    /\ result # None
    /\ args.click_offset = <<0, 0>>
    /\ ScannedTemplate = Image(3, 5)
    /\ \E p \in PeaksOf(region_image, args.image_name) :
           /\ PeaksOf(region_image, args.image_name) = {p}
           /\ result = <<args.bounding_box[1] + p.x + 1,
                         args.bounding_box[2] + p.y + 2>>

\* the calls of capture_screen_region an animated scan has made when it is
\* where it is, at one call at the start of each attempt
CapturesDue ==
    IF pc \in {"match", "settle"} \/ (pc = "done" /\ result # None)
    THEN attempt + 1
    ELSE attempt

\* the animated scan calls capture_screen_region once at the start of each
\* attempt and matches every pair of the attempt against the buffer of that
\* call
FreshCapturePerAttempt ==
    Animated =>
        /\ Captures = CapturesDue
        /\ pc = "match" =>
               /\ LastCaptureSucceeded
               /\ captured_at = attempt
        /\ (pc = "done" /\ result # None) =>
               /\ captured_at = found[1]
               /\ IsBestCenter(result, found[3])

StandardDone == pc = "done" /\ op \in {"locate", "locateAll"}

\* C19 as stated: the animated scan takes one new capture at the start of
\* each attempt and matches every (threshold, variation) pair of the attempt
\* against it, no capture is used again, and a standard locate or locateAll
\* captures exactly once per call.
C19_OneCapturePerAttemptAndPerCall ==
    /\ FreshCapturePerAttempt
    /\ StandardDone => Captures = 1

\* C19, amended: as stated for the animated scan (an attempt whose capture
\* fails matches nothing); a standard locate or locateAll captures exactly
\* once per call when its template loads, and not at all when load_template
\* fails.
C19_OneCapturePerAttemptAndPerLoadedCall ==
    /\ FreshCapturePerAttempt
    /\ StandardDone =>
           Captures = IF IsTemplate(ScannedTemplate) THEN 1 ELSE 0

\* a pair of the second threshold tried on the capture of a later attempt,
\* which shows another screen than the capture before it
C19_Witness ==
    /\ Animated
    /\ pc = "match"
    /\ attempt >= 1
    /\ ti = 2
    /\ ~static
    /\ captured_at = attempt

\* C20: between the captures of two consecutive attempts of an animated scan
\* there is a sleep: after every attempt but the last that found nothing, and
\* before the capture of the next.
C20_SleepBetweenConsecutiveCaptures ==
    Animated =>
        \A i \in 1..(Len(events) - 1) :
            events[i] \in {"capture", "capture_failed"}
                => events[i + 1] = "sleep"

C24_CacheOnlyGrowsAndServesHits ==
    /\ [][/\ \A n \in DOMAIN template_cache :
                 /\ n \in DOMAIN template_cache'
                 /\ template_cache'[n] = template_cache[n]
          /\ args'.image_name \in DOMAIN template_cache =>
                 /\ raised' = NoException
                 /\ result' = template_cache[args'.image_name]
                 /\ reads' = reads
                 /\ template_cache' = template_cache
         ]_vars
    /\ [](\A n \in DOMAIN template_cache : reads[n] = 1)

\* a load served from a cache of two names, each file read once
C24_Witness ==
    /\ op = "load"
    /\ calls = 3
    /\ raised = NoException
    /\ Cardinality(DOMAIN template_cache) = 2
    /\ args.image_name \in DOMAIN template_cache
    /\ result = template_cache[args.image_name]
    /\ \A n \in DOMAIN template_cache : reads[n] = 1

\* the threads that have written the cache entry of a name
Inserters(n) ==
    {t \in Threads : threads[t].inserted /\ threads[t].image_name = n}

\* C25: when two threads call load_template on one shared scanner, the
\* lookup-or-insert is serialized: in every interleaving the file of a name
\* is read and decoded once, and a cache entry once written is not written
\* again by the other thread.
C25_LookupOrInsertIsSerialized ==
    \A n \in InputNames :
        /\ IsTemplate(FileEntry(n)) => reads[n] <= 1
        /\ Cardinality(Inserters(n)) <= 1

(***************************************************************************)
(* Properties of _generate_image_variations.                               *)
(***************************************************************************)
\* C12: for every name the list of variations starts with the name itself
\* and holds no element twice.
C12_NameFirstNoDuplicates ==
    Done("variations") =>
        /\ Len(image_variations) >= 1
        /\ image_variations[1] = args.image_name
        /\ \A i, j \in 1..Len(image_variations) :
               image_variations[i] = image_variations[j] => i = j

\* the variations of "btn-normal.png": ten names
C12_Witness ==
    /\ Done("variations")
    /\ args.image_name = BtnNormalPng
    /\ Len(image_variations) = 10

\* the position of the last dot of a name, 0 when it has none
LastDot(name) ==
    IF \A i \in 1..Len(name) : name[i] # "." THEN 0
    ELSE CHOOSE d \in 1..Len(name) :
             /\ name[d] = "."
             /\ \A i \in (d + 1)..Len(name) : name[i] # "."

\* the stem before the extension, and the extension (png for a name with no
\* dot)
StemOf(name) ==
    IF LastDot(name) = 0 THEN name ELSE SubSeq(name, 1, LastDot(name) - 1)
ExtOf(name) ==
    IF LastDot(name) = 0 THEN <<"p","n","g">>
    ELSE SubSeq(name, LastDot(name) + 1, Len(name))

\* the known suffixes a stem ends with
SuffixesOf(stem) ==
    {k \in 1..NumSuffixes :
        \E root \in {SubSeq(stem, 1, n) : n \in 0..Len(stem)} :
            stem = root \o state_suffixes[k]}

\* the list the claim gives for a name
ExpectedVariations(name) ==
    LET stem == StemOf(name)
        ext == ExtOf(name)
    IN  IF SuffixesOf(stem) = {}
        THEN <<name>> \o [k \in 1..NumSuffixes |->
                             stem \o state_suffixes[k] \o <<".">> \o ext]
        ELSE LET own == CHOOSE k \in SuffixesOf(stem) : TRUE
                 root == SubSeq(stem, 1, Len(stem) - Len(state_suffixes[own]))
                 others == [k \in 1..(NumSuffixes - 1) |->
                               IF k < own THEN state_suffixes[k]
                               ELSE state_suffixes[k + 1]]
             IN  <<name>>
                 \o [k \in 1..(NumSuffixes - 1) |->
                        root \o others[k] \o <<".">> \o ext]
                 \o <<root \o <<".">> \o ext>>

\* C13: the variations of root+suffix.ext are the name, then root+s.ext for
\* every other known suffix s in list order, then root.ext; those of a name
\* with no known suffix are the name, then base+s.ext for every known suffix
\* s in list order. "btn-normal.png" gives "btn-focused.png" and "btn.png",
\* "icon.png" gives "icon-normal.png", "icon-focused.png", ... after the name.
C13_VariationsAreExactlyTheList ==
    Done("variations") =>
        /\ Cardinality(SuffixesOf(StemOf(args.image_name))) <= 1
        /\ image_variations = ExpectedVariations(args.image_name)
        /\ args.image_name = BtnNormalPng =>
               /\ image_variations[2] =
                      <<"b","t","n","-","f","o","c","u","s","e","d",".","p","n","g">>
               /\ image_variations[10] = <<"b","t","n",".","p","n","g">>
        /\ args.image_name = IconPng =>
               /\ image_variations[2] =
                      <<"i","c","o","n","-","n","o","r","m","a","l",".","p","n","g">>
               /\ image_variations[3] =
                      <<"i","c","o","n","-","f","o","c","u","s","e","d",".","p","n","g">>
               /\ Len(image_variations) = 10

\* the variations of "icon.png"
C13_Witness ==
    /\ Done("variations")
    /\ args.image_name = IconPng
    /\ image_variations[10] =
           <<"i","c","o","n","-","h","i","g","h","l","i","g","h","t","e","d",
             ".","p","n","g">>

(***************************************************************************)
(* Properties of the module-level functions.                               *)
(***************************************************************************)
\* C11: over the calls of the module-level functions a process makes, the
\* file of each template name is read and decoded at most once.
C11_EachNameReadAtMostOnce ==
    \A n \in DOMAIN reads : reads[n] <= 1

\* what a locate of the i-th listed name alone, by a scanner of its own, with
\* no click offset, returns on the capture the i-th scan of the call took
LocateAlone(i) ==
    ScanStandardImage(EmptyCache, image_names[i], args.bounding_box,
                      args.threshold, <<0, 0>>, shots[i]).result

\* the value the returned dict holds under a key
DictGet(items, key) ==
    (CHOOSE item \in {items[i] : i \in 1..Len(items)} : item[1] = key)[2]

DictKeys(items) == {items[i][1] : i \in 1..Len(items)}

Relaxed(base, i) == IF base - 5 * i < 10 THEN 10 ELSE base - 5 * i

\* C21: the thresholds of an animated scan are exactly the six values
\* max(0.1, base - 0.05 * i) for i = 0..5, in that order, which is
\* non-increasing; the threshold passed to find_template_in_region is one of
\* them and never below 0.1, for any base threshold.
C21_SixThresholdsNeverBelowFloor ==
    op \in {"schedule", "animated"} =>
        /\ Len(thresholds) = 6
        /\ \A i \in 0..5 : thresholds[i + 1] = Relaxed(args.threshold, i)
        /\ \A i \in 1..5 : thresholds[i] >= thresholds[i + 1]
        /\ (Animated /\ pc = "match") =>
               /\ ti \in 1..6
               /\ thresholds[ti] >= 10
               /\ thresholds[ti] = Relaxed(args.threshold, ti - 1)

\* a scan from 0.3 that passes its last threshold, 0.1 where 0.3 - 0.25 is
\* 0.05, to find_template_in_region
C21_Witness ==
    /\ Animated
    /\ pc = "match"
    /\ args.threshold = 30
    /\ ti = 6
    /\ thresholds = <<30, 25, 20, 15, 10, 10>>

(***************************************************************************)
(* Properties of _remove_overlapping_matches.                              *)
(***************************************************************************)
\* the matches kept by the finished locateAll
Kept == {Survivors[i] : i \in 1..Len(Survivors)}

\* whether the suppression comes to raw match a before raw match m: by
\* descending confidence, matches of equal confidence in scan order
WalkedBefore(a, m) ==
    \/ a[3] > m[3]
    \/ (a[3] = m[3] /\ RowMajorBefore(a, m))

\* C22 as stated: a candidate is accepted only if it is strictly farther than
\* 0.5 * min(template_w, template_h) from every match accepted before it; one
\* at exactly that distance from an accepted match is discarded.
C22_AcceptedOnlyIfStrictlyFarther ==
    (Done("locateAll") /\ Matched) =>
        LET kept == Kept
        IN  \A m \in RawPeaks :
                m \in kept <=>
                    \A a \in kept :
                        WalkedBefore(a, m) => Dist2x4(m, a) > MinSide2

\* C22, amended: a candidate is accepted if and only if it is at least
\* 0.5 * min(template_w, template_h) away from every match accepted before it;
\* one at exactly that distance is accepted, only a strictly closer one is
\* discarded.
C22_AcceptedIffAtLeastMinDistance ==
    (Done("locateAll") /\ Matched) =>
        LET kept == Kept
        IN  \A m \in RawPeaks :
                m \in kept <=>
                    \A a \in kept :
                        WalkedBefore(a, m) => Dist2x4(m, a) >= MinSide2

\* two kept matches of a 4x4 template exactly 2 apart
C22_Witness ==
    /\ Done("locateAll")
    /\ Matched
    /\ ScannedTemplate = Image(4, 4)
    /\ \E a, m \in Kept :
           /\ WalkedBefore(a, m)
           /\ Dist2x4(m, a) = MinSide2
    /\ \E i, j \in 1..Len(result) :
           result[j][1] = result[i][1] + 2 /\ result[j][2] = result[i][2]

C30_SuppressionIsMaximal ==
    (Done("locateAll") /\ Matched) =>
        LET kept == Kept
        IN  \A m \in RawPeaks \ kept :
                \E a \in kept :
                    /\ Dist2x4(m, a) < MinSide2
                    /\ a[3] >= m[3]

\* a discarded match between two kept ones, too close to one of them only
C30_Witness ==
    /\ Done("locateAll")
    /\ Matched
    /\ Len(result) = 2
    /\ \E m \in RawPeaks \ Kept :
           \E a, b \in Kept :
               /\ Dist2x4(m, a) < MinSide2
               /\ a[3] >= m[3]
               /\ Dist2x4(m, b) >= MinSide2

(***************************************************************************)
(* Properties of scan_image_with_bbox.                                     *)
(***************************************************************************)
\* C26: scan_image_with_bbox, given a bounding box to search, returns a
\* result with success False and the "not found in images folder" error when
\* the template file does not exist, and returns success True, with
\* found_count the number of locations, only when the scan itself ran: the
\* template was loaded, the region captured and matched, nothing went wrong.
C26_MissingTemplateIsReported ==
    (Done("scan_image_with_bbox") /\ args.bounding_box # <<0, 0, 0, 0>>) =>
        /\ ScannedTemplate = Missing =>
               /\ result.success = FALSE
               /\ result.error = "Template image not found in images folder"
        /\ result.success =>
               /\ caught = NoException
               /\ events = <<"capture">>
               /\ result.found_count = Len(result.locations)

(***************************************************************************)
(* Standard locate against standard locateAll.                             *)
(***************************************************************************)
\* what locateAll gives for the arguments of the finished scan on the buffer
\* it captured
LocateAllOnSameScreen ==
    ScanForAllImagesStandard(template_cache, args.image_name,
                             args.bounding_box, args.threshold,
                             args.click_offset, Captured(region_image)).result

\* C27: on the same captured buffer, template, threshold and click offset,
\* standard locate returns a coordinate if and only if standard locateAll
\* returns a non-empty list, and then the coordinate of locate is the first
\* element of the list of locateAll.
C27_LocateIsFirstOfLocateAll ==
    /\ (Done("locate") /\ events = <<"capture">>) =>
           LET all == LocateAllOnSameScreen
           IN  /\ result # None <=> all # <<>>
               /\ result # None => result = all[1]
    /\ (Done("locateAll") /\ events = <<"capture">>) =>
           LET one == LocateOnSameScreen
           IN  /\ result # <<>> <=> one # None
               /\ result # <<>> => one = result[1]

\* a buffer with the highest confidence at two placements far enough apart:
\* locateAll returns both, the first of them is what locate returns
C27_Witness ==
    /\ Done("locate")
    /\ Matched
    /\ result # None
    /\ Len(LocateAllOnSameScreen) >= 2
    /\ result = LocateAllOnSameScreen[1]
    /\ \E a, b \in RawPeaks :
           /\ RowMajorBefore(a, b)
           /\ a[3] = b[3]
           /\ \A m \in RawPeaks : m[3] <= a[3]
           /\ result = CenterOf(a)
           /\ LocateAllOnSameScreen[2] = CenterOf(b)

(***************************************************************************)
(* Properties of the coordinates returned.                                 *)
(***************************************************************************)
\* whether a coordinate lies in a region
Inside(p, bounding_box) ==
    /\ bounding_box[1] <= p[1]
    /\ p[1] < bounding_box[1] + bounding_box[3]
    /\ bounding_box[2] <= p[2]
    /\ p[2] < bounding_box[2] + bounding_box[4]

\* C29: with click offset (0, 0), every coordinate (x, y) returned by locate,
\* locateAll or the animated scan lies inside the searched region:
\* left <= x < left + width and top <= y < top + height, for every template
\* size from 1x1 up to the size of the region and every placement of a match.
C29_ClickInsideRegion ==
    (pc = "done" /\ args.click_offset = <<0, 0>>) =>
        /\ (op \in {"locate", "animated"} /\ result # None) =>
               Inside(result, args.bounding_box)
        /\ op = "locateAll" =>
               \A i \in 1..Len(result) : Inside(result[i], args.bounding_box)

\* an animated scan of a 1x1 template matched in the last column of the last
\* row of the region: the coordinate is the last pixel of the region
C29_Witness ==
    /\ Done("animated")
    /\ args.click_offset = <<0, 0>>
    /\ ScannedTemplate = Image(1, 1)
    /\ result # None
    /\ result = <<args.bounding_box[1] + args.bounding_box[3] - 1,
                  args.bounding_box[2] + args.bounding_box[4] - 1>>

====
